---- MODULE Spec2Model ----
(***************************************************************************)
(* Model of generate_daily_stats.py: the per-sensor daily statistics       *)
(* pipeline (window generation, dataset merge, checkpoint resolution,      *)
(* window aggregation, append-only statistics log).                        *)
(*                                                                         *)
(* Instants are whole hours counted from DATE 00:00 UTC.  Measurement      *)
(* values are small non-negative integers; a formatted number ("%.3f") is  *)
(* kept as an integer count of thousandths.                                *)
(***************************************************************************)
EXTENDS Integers, Sequences, FiniteSets, TLC

\* ---------------------------------------------------------------- CONFIG
DATE == 0
WINDOW_START_HOUR == 6
DayHours == 24
HourSeconds == 3600
Milli == 1000
VARS == <<"co", "no", "no2", "o3", "pm1", "pm25", "pm10", "temp", "rh">>

VarSet == {VARS[i] : i \in 1..Len(VARS)}
StatNames == <<"mean", "min", "max", "std", "median">>

\* number of anchor boundaries after the first one that the clock may reach
MaxDays == 3

\* the instants a run may read from the clock: midnight of DATE, and the hour
\* before and the hour of every anchor boundary
Instants ==
  {DATE} \cup {DATE + d * DayHours + WINDOW_START_HOUR + o :
                 d \in 0..MaxDays, o \in {-1, 0}}

\* os.listdir(REMOTE_BASE), sorted
sensors == <<"MOD1", "MOD2">>
SensorSet == {sensors[i] : i \in 1..Len(sensors)}

\* ------------------------------------------------------------- raw input
\* a cell of a raw CSV file, before coercion
TimeCell(t) == [kind |-> "time", n |-> t]
NumCell(x) == [kind |-> "num", n |-> x]
TextCell == [kind |-> "text", n |-> 0]

RawRow(ts, cells) == [timestamp |-> ts, cells |-> cells]
AllCells(c) == [v \in VarSet |-> c]
OnlyCo(c) == [v \in VarSet |-> IF v = "co" THEN c ELSE TextCell]

\* a raw file: unreadable, or a table of rows
CorruptFile == [readable |-> FALSE, rows |-> <<>>]
CsvFile(rows) == [readable |-> TRUE, rows |-> rows]

FirstStart == DATE + WINDOW_START_HOUR

\* one reading inside the first window, carrying a value for co only
SingleRowFile ==
  CsvFile(<<RawRow(TimeCell(FirstStart + 12), OnlyCo(NumCell(2)))>>)
\* unsorted rows, one of them exactly on the boundary between the first two
\* windows, one with an unparseable timestamp
BoundaryFile ==
  CsvFile(<<RawRow(TimeCell(FirstStart + DayHours), OnlyCo(NumCell(4))),
            RawRow(TimeCell(FirstStart + 6), AllCells(NumCell(1))),
            RawRow(TextCell, AllCells(NumCell(3)))>>)
\* two rows sharing one timestamp, in the first window
DuplicateFile ==
  CsvFile(<<RawRow(TimeCell(FirstStart + 12), AllCells(TextCell)),
            RawRow(TimeCell(FirstStart + 12), AllCells(NumCell(3)))>>)
\* two rows sharing one timestamp, in the second window
LateDuplicateFile ==
  CsvFile(<<RawRow(TimeCell(FirstStart + DayHours + 12), AllCells(NumCell(1))),
            RawRow(TimeCell(FirstStart + DayHours + 12), AllCells(NumCell(2)))>>)

\* the file lists glob may return for one sensor
FileLists ==
  { <<>>,
    <<CorruptFile>>,
    <<BoundaryFile, CorruptFile, SingleRowFile>>,
    <<DuplicateFile>>,
    <<LateDuplicateFile>> }

\* ------------------------------------------------------- PREPARE WINDOWS
\* pd.to_datetime(DATE).tz_localize(TZ) + pd.Timedelta(hours=WINDOW_START_HOUR)
start_dt == DATE + WINDOW_START_HOUR

\* Timestamp.normalize(): midnight of the same day
Normalize(t) == t - (t % DayHours)

\* forgets to step back a day when the clock is before today's anchor hour
Today6amNoStepBack(now_utc) == Normalize(now_utc) + WINDOW_START_HOUR

\* today_6am: the most recent anchor-hour boundary at or before now_utc
Today6am(now_utc) ==
  LET today_6am == Normalize(now_utc) + WINDOW_START_HOUR
  IN  IF now_utc < today_6am THEN today_6am - DayHours ELSE today_6am

\* leaves out the last point of the range
DateRangeOpenEnd(start, end) ==
  IF end <= start THEN <<>>
  ELSE [i \in 1..((end - start - 1) \div DayHours + 1) |->
          start + (i - 1) * DayHours]

\* pd.date_range(start, end, freq="24h"): start, start+24h, ... up to end
\* inclusive; empty when end is before start
DateRange(start, end) ==
  IF end < start THEN <<>>
  ELSE [i \in 1..((end - start) \div DayHours + 1) |->
          start + (i - 1) * DayHours]

WindowStarts(now_utc) == DateRange(start_dt, Today6am(now_utc) - DayHours)

\* --------------------------------------------------------- DATASET MERGER
\* a parsed row: index t, and per variable <<x>> (a number) or <<>> (NaN)
ToNumeric(cell) == IF cell.kind = "num" THEN <<cell.n>> ELSE <<>>

\* pd.to_datetime(errors="coerce"), dropna(subset=["timestamp"]), set_index,
\* to_numeric(errors="coerce") of one file's rows
RECURSIVE ParseRows(_)
ParseRows(rows) ==
  IF rows = <<>> THEN <<>>
  ELSE LET r == Head(rows)
           rest == ParseRows(Tail(rows))
       IN  IF r.timestamp.kind = "time"
           THEN <<[t |-> r.timestamp.n,
                   vals |-> [v \in VarSet |-> ToNumeric(r.cells[v])]]>> \o rest
           ELSE rest

\* the loop over file_list: a file read_csv cannot read is skipped
RECURSIVE LoadFiles(_)
LoadFiles(file_list) ==
  IF file_list = <<>> THEN <<>>
  ELSE LET f == Head(file_list)
       IN  IF f.readable
           THEN ParseRows(f.rows) \o LoadFiles(Tail(file_list))
           ELSE LoadFiles(Tail(file_list))

\* sort_index(): rows in non-decreasing order of t (insertion, stable)
RECURSIVE InsertRow(_, _)
InsertRow(r, sorted) ==
  IF sorted = <<>> THEN <<r>>
  ELSE IF r.t < Head(sorted).t THEN <<r>> \o sorted
  ELSE <<Head(sorted)>> \o InsertRow(r, Tail(sorted))

RECURSIVE SortIndex(_)
SortIndex(rows) ==
  IF rows = <<>> THEN <<>>
  ELSE InsertRow(rows[Len(rows)], SortIndex(SubSeq(rows, 1, Len(rows) - 1)))

\* all_df for one sensor (empty when no file could be loaded)
AllDf(file_list) == SortIndex(LoadFiles(file_list))

\* all_df.loc[window_start:window_end]: a label slice, both ends included
Block(all_df, window_start, window_end) ==
  SelectSeq(all_df, LAMBDA r: window_start <= r.t /\ r.t <= window_end)

\* -------------------------------------------------------- WINDOW AGGREGATOR
\* a field of a log row: empty text, the text "nan", or a number
EmptyField == [k |-> "empty", v |-> 0]
NanField == [k |-> "nan", v |-> 0]
NumField(n) == [k |-> "num", v |-> n]
IntField(n) == [k |-> "int", v |-> n]

\* num/den rounded to the nearest integer, halves to the even one
\* (round(), and the rounding of "%.3f")
RoundHalfEven(num, den) ==
  LET q == num \div den
      r == num % den
  IN  IF 2 * r < den THEN q
      ELSE IF 2 * r > den THEN q + 1
      ELSE IF q % 2 = 0 THEN q ELSE q + 1

\* the largest r with r * r <= n
RECURSIVE SqrtSearch(_, _, _)
SqrtSearch(n, lo, hi) ==
  IF lo = hi THEN lo
  ELSE LET mid == (lo + hi + 1) \div 2
       IN  IF mid * mid <= n THEN SqrtSearch(n, mid, hi)
           ELSE SqrtSearch(n, lo, mid - 1)

ISqrt(n) == SqrtSearch(n, 0, 46340)

RECURSIVE Sum(_)
Sum(xs) == IF xs = <<>> THEN 0 ELSE Head(xs) + Sum(Tail(xs))

RECURSIVE SumSq(_)
SumSq(xs) == IF xs = <<>> THEN 0 ELSE Head(xs) * Head(xs) + SumSq(Tail(xs))

RECURSIVE InsertNum(_, _)
InsertNum(x, sorted) ==
  IF sorted = <<>> THEN <<x>>
  ELSE IF x < Head(sorted) THEN <<x>> \o sorted
  ELSE <<Head(sorted)>> \o InsertNum(x, Tail(sorted))

RECURSIVE SortNums(_)
SortNums(xs) == IF xs = <<>> THEN <<>> ELSE InsertNum(Head(xs), SortNums(Tail(xs)))

\* block[v].dropna(): the non-missing values of variable v, in row order
RECURSIVE Series(_, _)
Series(block, v) ==
  IF block = <<>> THEN <<>>
  ELSE Head(block).vals[v] \o Series(Tail(block), v)

\* f"{series.mean():.3f}", in thousandths
MeanField(series) == NumField(RoundHalfEven(Milli * Sum(series), Len(series)))
MinField(series) == NumField(Milli * SortNums(series)[1])
MaxField(series) == NumField(Milli * SortNums(series)[Len(series)])

\* f"{series.std():.3f}": the sample deviation (N-1 denominator) is NaN for a
\* single value and NaN formats as the text "nan"; otherwise
\* sqrt(num/den) in thousandths, rounded to the nearest
StdField(series) ==
  LET n == Len(series)
      num == n * SumSq(series) - Sum(series) * Sum(series)
      den == n * (n - 1)
  IN  IF n < 2 THEN NanField
      ELSE NumField((ISqrt((4 * Milli * Milli * num) \div den) + 1) \div 2)

MedianField(series) ==
  LET s == SortNums(series)
      n == Len(s)
  IN  IF n % 2 = 1 THEN NumField(Milli * s[(n + 1) \div 2])
      ELSE NumField((Milli * (s[n \div 2] + s[n \div 2 + 1])) \div 2)

\* the five fields of one variable, in the order mean, min, max, std, median
VarStats(block, v) ==
  LET series == Series(block, v)
  IN  IF series # <<>>
      THEN <<MeanField(series), MinField(series), MaxField(series),
             StdField(series), MedianField(series)>>
      ELSE <<EmptyField, EmptyField, EmptyField, EmptyField, EmptyField>>

\* block.index.to_series().diff().dropna(), then the positive ones
PositiveDeltas(block) ==
  {block[i + 1].t - block[i].t : i \in 1..(Len(block) - 1)} \ {0}

SetMin(S) == CHOOSE x \in S : \A y \in S : x <= y

\* expected: with two or more rows, round(24*3600/sec) for the smallest
\* positive gap sec; when no gap is positive the minimum is NaT, sec is NaN
\* and round() raises ValueError.  With fewer than two rows, "".
Expected(block) ==
  IF Len(block) >= 2
  THEN IF PositiveDeltas(block) = {}
       THEN [raised |-> TRUE, field |-> EmptyField]
       ELSE [raised |-> FALSE,
             field |-> IntField(RoundHalfEven(DayHours * HourSeconds,
                                              SetMin(PositiveDeltas(block)) * HourSeconds))]
  ELSE [raised |-> FALSE, field |-> EmptyField]

\* len(block.dropna(how="all", subset=VARS))
Available(block) ==
  Len(SelectSeq(block, LAMBDA r: \E v \in VarSet : r.vals[v] # <<>>))

\* window_start.isoformat() of a UTC-aware timestamp: text with an offset
IsoFormat(t) == [t |-> t, offset |-> "+00:00"]

\* the record of one window: a row, or the exception raised on the way
WindowRecord(all_df, window_start) ==
  LET window_end == window_start + DayHours
      block == Block(all_df, window_start, window_end)
      expected == Expected(block)
  IN  [raised |-> expected.raised,
       row |-> [date |-> IsoFormat(window_start),
                stats |-> [v \in VarSet |-> VarStats(block, v)],
                expected |-> expected.field,
                available |-> IntField(Available(block))]]

\* ------------------------------------------------------ STATISTICS LOG
\* a sensor's output file: absent, or a header line followed by data rows
AbsentLog == [exists |-> FALSE, header |-> <<>>, rows |-> <<>>]

\* "date", then mean_v, min_v, max_v, std_v, median_v per variable, then
\* expected_count, available_count; a column name is <<prefix, variable>>
HeaderColumns ==
  LET n == Len(VARS) * Len(StatNames)
  IN  [i \in 1..(n + 3) |->
         IF i = 1 THEN <<"date", "">>
         ELSE IF i <= n + 1
              THEN <<StatNames[((i - 2) % Len(StatNames)) + 1],
                     VARS[((i - 2) \div Len(StatNames)) + 1]>>
         ELSE IF i = n + 2 THEN <<"expected_count", "">>
         ELSE <<"available_count", "">>]

\* open(out_file, "w") and the header line
CreateWithHeader == [exists |-> TRUE, header |-> HeaderColumns, rows |-> <<>>]

\* opens the file for writing, which truncates it
OpenTruncate(log, rows) == [exists |-> TRUE, header |-> <<>>, rows |-> rows]

\* open(out_file, "a") and the rows written before the file is closed
OpenAppend(log, rows) == [log EXCEPT !.rows = @ \o rows]

\* ----------------------------------------------------- CHECKPOINT RESOLVER
\* read_csv(parse_dates=["date"]): text with an offset parses to a UTC-aware
\* timestamp, text without one to a naive timestamp (pandas 0.24 and later)
ParseDate(text) ==
  [t |-> text.t, tz |-> IF text.offset = "" THEN "naive" ELSE "UTC"]

\* existing["date"].max()
MaxDate(rows) ==
  LET dates == {ParseDate(rows[i].date) : i \in 1..Len(rows)}
  IN  CHOOSE d \in dates : \A e \in dates : e.t <= d.t

\* Timestamp.tz_localize(TZ): TypeError on a timestamp that is already aware
TzLocalize(ts) ==
  IF ts.tz = "naive" THEN [raised |-> FALSE, value |-> ts.t]
  ELSE [raised |-> TRUE, value |-> ts.t]

Sentinel == [raised |-> FALSE, value |-> start_dt - DayHours]

\* starts every log over from the first window
LastDateIgnoringRows(log) == Sentinel

\* sets the sentinel to the first window itself
LastDateSentinelAtStart(log) ==
  IF ~log.exists \/ log.rows = <<>>
  THEN [raised |-> FALSE, value |-> start_dt]
  ELSE TzLocalize(MaxDate(log.rows))

\* last_date: one window before start_dt for a missing or header-only log,
\* else the localized maximum of the date column
LastDate(log) ==
  IF ~log.exists THEN Sentinel
  ELSE IF log.rows = <<>> THEN Sentinel
  ELSE TzLocalize(MaxDate(log.rows))

\* compares against the end of the checkpointed window instead of its start
ToDoAfterWindowEnd(windows, last_date) ==
  SelectSeq(windows, LAMBDA w: w > last_date + DayHours)

\* to_do = [w for w in window_starts if w > last_date]
ToDo(windows, last_date) == SelectSeq(windows, LAMBDA w: w > last_date)

\* the append loop: one row per window of to_do, in order, until a window's
\* record raises; rows written before that stay in the file
RECURSIVE AppendLoop(_, _)
AppendLoop(all_df, to_do) ==
  IF to_do = <<>> THEN [rows |-> <<>>, raised |-> FALSE]
  ELSE LET rec == WindowRecord(all_df, Head(to_do))
       IN  IF rec.raised THEN [rows |-> <<>>, raised |-> TRUE]
           ELSE LET rest == AppendLoop(all_df, Tail(to_do))
                IN  [rows |-> <<rec.row>> \o rest.rows, raised |-> rest.raised]

\* ------------------------------------------------------------------ STATE
VARIABLES
  now_utc,        \* the clock value the current run read at its start
  window_starts,  \* the window starts generated at the start of the run
  raw,            \* per sensor, the raw files glob finds
  logs,           \* per sensor, the statistics log on disk
  pc,             \* "idle", "running", "done", "crashed"
  idx,            \* position of the run in the sorted sensor list
  error,          \* the exception that ended the run, or "none"
  startLogs,      \* the logs as they were when the current run started
  sameInput       \* the current run repeats the previous run's clock and raw input

vars == <<now_utc, window_starts, raw, logs, pc, idx, error, startLogs, sameInput>>

Init ==
  /\ now_utc = DATE
  /\ window_starts = <<>>
  /\ raw = [s \in SensorSet |-> <<>>]
  /\ logs = [s \in SensorSet |-> AbsentLog]
  /\ pc = "idle"
  /\ idx = 1
  /\ error = "none"
  /\ startLogs = [s \in SensorSet |-> AbsentLog]
  /\ sameInput = FALSE

\* the script starts: it reads the clock and generates the windows
StartRun(now, files) ==
  /\ pc \in {"idle", "done", "crashed"}
  /\ now >= now_utc
  /\ now_utc' = now
  /\ window_starts' = WindowStarts(now)
  /\ raw' = files
  /\ pc' = "running"
  /\ idx' = 1
  /\ error' = "none"
  /\ startLogs' = logs
  /\ sameInput' = (pc # "idle" /\ now = now_utc /\ files = raw)
  /\ UNCHANGED logs

Current == sensors[idx]
InLoop == pc = "running" /\ idx <= Len(sensors)

\* the log after the "create file with header if missing" step
Opened(log) == IF log.exists THEN log ELSE CreateWithHeader

\* line 85 raises: the script ends with the traceback
CheckpointFails ==
  /\ InLoop
  /\ LastDate(logs[Current]).raised
  /\ pc' = "crashed"
  /\ error' = "TypeError"
  /\ UNCHANGED <<now_utc, window_starts, raw, logs, idx, startLogs, sameInput>>

\* to_do is empty: "no new windows to process", next sensor
NoNewWindows ==
  /\ InLoop
  /\ ~LastDate(logs[Current]).raised
  /\ ToDo(window_starts, LastDate(logs[Current]).value) = <<>>
  /\ logs' = [logs EXCEPT ![Current] = Opened(@)]
  /\ idx' = idx + 1
  /\ UNCHANGED <<now_utc, window_starts, raw, pc, error, startLogs, sameInput>>

\* every pending window's row is appended, next sensor
AppendStats ==
  /\ InLoop
  /\ ~LastDate(logs[Current]).raised
  /\ LET to_do == ToDo(window_starts, LastDate(logs[Current]).value)
         res == AppendLoop(AllDf(raw[Current]), to_do)
     IN  /\ to_do # <<>>
         /\ ~res.raised
         /\ logs' = [logs EXCEPT ![Current] = OpenAppend(Opened(@), res.rows)]
  /\ idx' = idx + 1
  /\ UNCHANGED <<now_utc, window_starts, raw, pc, error, startLogs, sameInput>>

\* a window's record raises at line 118: the rows before it are in the file
\* and the script ends with the traceback
AppendFails ==
  /\ InLoop
  /\ ~LastDate(logs[Current]).raised
  /\ LET to_do == ToDo(window_starts, LastDate(logs[Current]).value)
         res == AppendLoop(AllDf(raw[Current]), to_do)
     IN  /\ to_do # <<>>
         /\ res.raised
         /\ logs' = [logs EXCEPT ![Current] = OpenAppend(Opened(@), res.rows)]
  /\ pc' = "crashed"
  /\ error' = "ValueError"
  /\ UNCHANGED <<now_utc, window_starts, raw, idx, startLogs, sameInput>>

\* the loop over the sensors is over: the script exits normally
FinishRun ==
  /\ pc = "running"
  /\ idx > Len(sensors)
  /\ pc' = "done"
  /\ UNCHANGED <<now_utc, window_starts, raw, logs, idx, error, startLogs, sameInput>>

Next ==
  \/ \E now \in Instants, files \in [SensorSet -> FileLists] : StartRun(now, files)
  \/ CheckpointFails
  \/ NoNewWindows
  \/ AppendStats
  \/ AppendFails
  \/ FinishRun

Spec == Init /\ [][Next]_vars

\* ----------------------------------------------------------- PROPERTIES
Position(s) == CHOOSE i \in 1..Len(sensors) : sensors[i] = s

\* the loop body of the current run has been completed for sensor s
Processed(s) == pc # "idle" /\ Position(s) < idx

\* the current run has ended, normally or with a traceback
RunOver == pc \in {"done", "crashed"}

IsPrefix(a, b) == Len(a) <= Len(b) /\ \A i \in 1..Len(a) : a[i] = b[i]

\* the positions of the rows the current run has appended to the log of s;
\* raw[s] is the input they were computed from
NewRows(s) == (Len(startLogs[s].rows) + 1)..Len(logs[s].rows)

\* the readings with window_start <= timestamp < window_start + 24h
HalfOpenSlice(all_df, window_start) ==
  SelectSeq(all_df, LAMBDA r: window_start <= r.t /\ r.t < window_start + DayHours)

\* the slice the aggregator took for the row at position i of the log of s
SliceOfRow(s, i) ==
  Block(AllDf(raw[s]), logs[s].rows[i].date.t, logs[s].rows[i].date.t + DayHours)

\* a row for a window without readings
EmptyRow(w) ==
  [date |-> [t |-> w, offset |-> "+00:00"],
   stats |-> [v \in VarSet |->
                <<EmptyField, EmptyField, EmptyField, EmptyField, EmptyField>>],
   expected |-> EmptyField,
   available |-> IntField(0)]

\* C1: a run that repeats the previous run's raw input and current instant
\* completes normally and leaves every sensor's log as it found it.
C1_Idempotence ==
  (sameInput /\ RunOver) => (pc = "done" /\ logs = startLogs)

\* C2: a run never changes what an existing log already holds: the header and
\* the rows present before a step are an unchanged prefix of the log after it,
\* whatever the raw readings of the recorded windows now are.
C2_AppendOnly ==
  [][\A s \in SensorSet :
       logs[s].exists =>
         /\ logs'[s].exists
         /\ logs'[s].header = logs[s].header
         /\ IsPrefix(logs[s].rows, logs'[s].rows)]_vars

\* C2 witness: a run on a sensor whose log holds a row that the present raw
\* input would no longer produce has ended, and the log is as the run found it.
C2_Witness ==
  /\ pc = "crashed"
  /\ \E s \in SensorSet :
       /\ startLogs[s].rows # <<>>
       /\ s = sensors[idx]
       /\ IsPrefix(startLogs[s].rows, logs[s].rows)
       /\ \E i \in 1..Len(logs[s].rows) :
            WindowRecord(AllDf(raw[s]), logs[s].rows[i].date.t).row # logs[s].rows[i]

\* C3: in every log the window starts of the data rows are strictly
\* increasing, so no window start appears twice.
C3_StrictlyIncreasing ==
  \A s \in SensorSet :
    \A i, j \in 1..Len(logs[s].rows) :
      i < j => logs[s].rows[i].date.t < logs[s].rows[j].date.t

\* C3 witness: a later run has been made on a log that holds several rows.
C3_Witness ==
  /\ pc = "crashed"
  /\ \E s \in SensorSet :
       /\ Len(startLogs[s].rows) >= 2
       /\ s = sensors[idx]

LastBoundary(t) ==
  CHOOSE b \in (t - DayHours + 1)..t : b % DayHours = WINDOW_START_HOUR

\* C5: the generated window starts are the start date at the anchor hour and
\* then every 24 hours, in increasing order, up to and including the last
\* window that ends at or before the most recent anchor boundary at or before
\* the current instant (none when no window does).
C5_WindowCoverage ==
  pc # "idle" =>
    LET b == LastBoundary(now_utc)
        n == Len(window_starts)
    IN  /\ \A i \in 1..n :
             window_starts[i] = DATE + WINDOW_START_HOUR + (i - 1) * DayHours
        /\ \A i \in 1..n : window_starts[i] + DayHours <= b
        /\ DATE + WINDOW_START_HOUR + n * DayHours + DayHours > b

\* C5 witness: a run started before the day's anchor hour, with two windows
\* fully elapsed.
C5_Witness ==
  /\ pc = "running"
  /\ Len(window_starts) >= 2
  /\ now_utc % DayHours < WINDOW_START_HOUR

\* C6 (as claimed): a sensor without matching raw files whose log was absent
\* or header-only when the run started has a header-only log.
C6_HeaderOnly ==
  \A s \in SensorSet :
    (raw[s] = <<>> /\ startLogs[s].rows = <<>> /\ logs[s].exists)
      => logs[s] = CreateWithHeader

\* C6 (amended): for a sensor without matching raw files, a run that found no
\* log or a header-only log leaves the header followed by one row per generated
\* window, each with every statistic and expected_count empty and
\* available_count 0 (so header only when no window was generated); a run that
\* repeats the previous run's instant and input appends nothing.
C6_HeaderAndEmptyRows ==
  \A s \in SensorSet :
    raw[s] = <<>> =>
      /\ (startLogs[s].rows = <<>> /\ Processed(s)) =>
           /\ logs[s].exists
           /\ logs[s].header = HeaderColumns
           /\ Len(logs[s].rows) = Len(window_starts)
           /\ \A i \in 1..Len(window_starts) :
                logs[s].rows[i] = EmptyRow(window_starts[i])
      /\ sameInput => logs[s] = startLogs[s]

\* C6 witness: the first run on a sensor without raw files has written rows.
C6_Witness ==
  \E s \in SensorSet :
    /\ raw[s] = <<>>
    /\ ~startLogs[s].exists
    /\ Processed(s)
    /\ logs[s].rows # <<>>

\* C7: when a run fails at one sensor, every other sensor of the list has its
\* output file and a row for every generated window.
C7_FailureIsolation ==
  pc = "crashed" =>
    \A s \in SensorSet \ {sensors[idx]} :
      /\ logs[s].exists
      /\ \A i \in 1..Len(window_starts) :
           \E j \in 1..Len(logs[s].rows) : logs[s].rows[j].date.t = window_starts[i]

\* C8: the available_count of every appended row is at most the number of raw
\* rows with start <= timestamp < start + 24h.
C8_HalfOpenSlice ==
  \A s \in SensorSet :
    \A i \in NewRows(s) :
      logs[s].rows[i].available.v
        <= Len(HalfOpenSlice(AllDf(raw[s]), logs[s].rows[i].date.t))

\* C9: every pending window of a sensor whose checkpoint was resolved gets its
\* row, and the row's expected_count is present exactly when the slice holds
\* two or more distinct timestamps.
C9_ExpectedCountPolicy ==
  /\ \A s \in SensorSet :
       \A i \in NewRows(s) :
         (logs[s].rows[i].expected # EmptyField)
           <=> Cardinality({SliceOfRow(s, i)[j].t : j \in 1..Len(SliceOfRow(s, i))}) >= 2
  /\ (pc = "crashed" /\ ~LastDate(startLogs[sensors[idx]]).raised) =>
       \A i \in 1..Len(window_starts) :
         \E j \in 1..Len(logs[sensors[idx]].rows) :
           logs[sensors[idx]].rows[j].date.t = window_starts[i]

\* C10: in every appended row, a variable without a non-missing value in the
\* slice has its five fields empty, and a variable with exactly one
\* non-missing value has an empty standard-deviation field.
C10_AbsentStatistics ==
  \A s \in SensorSet :
    \A i \in NewRows(s) :
      \A v \in VarSet :
        LET series == Series(SliceOfRow(s, i), v)
        IN  /\ series = <<>> =>
                 \A k \in 1..Len(StatNames) : logs[s].rows[i].stats[v][k] = EmptyField
            /\ Len(series) = 1 => logs[s].rows[i].stats[v][4] = EmptyField

\* the window starts of the data rows of a log, in file order
RowStarts(log) == [i \in 1..Len(log.rows) |-> log.rows[i].date.t]

\* C11: once a run has completed its append loop for a sensor, the window
\* starts of that sensor's data rows are the whole window sequence generated
\* for the run's current instant: the first row is the start date at the
\* anchor hour, consecutive rows are 24 hours apart, and the last row is the
\* last generated window.
C11_CatchUpAndContiguity ==
  \A s \in SensorSet :
    (Processed(s) /\ NewRows(s) # {}) =>
      LET starts == RowStarts(logs[s])
          n == Len(starts)
      IN  /\ starts = window_starts
          /\ starts[1] = DATE + WINDOW_START_HOUR
          /\ \A i \in 1..(n - 1) : starts[i + 1] = starts[i] + DayHours
          /\ starts[n] = window_starts[Len(window_starts)]

\* C11 witness: a log created header-only by an earlier run has been extended
\* by a later run that completed its append loop over several windows.
C11_Witness ==
  \E s \in SensorSet :
    /\ startLogs[s].exists
    /\ Processed(s)
    /\ Len(logs[s].rows) >= 2
    /\ NewRows(s) # {}

====
